---- MODULE Spec2Model ----
(***************************************************************************)
(* A model of the two demo pipelines of ml-model-dashboard:                *)
(*   classification-ml-model  (customer churn, RandomForestClassifier)     *)
(*   sample-ml-model          (house price, LinearRegression)              *)
(*                                                                         *)
(* Six specifications share the module:                                    *)
(*   Spec         the artifact files on disk: train_model's two writes and *)
(*                load_model's two reads, for both pipelines;              *)
(*   SpecPredict  predict_churn applied to feature mappings;               *)
(*   SpecGen      the data generators over the process-wide random source; *)
(*   SpecRow      the per-row formulas of the generators, with the random  *)
(*                draws left free;                                         *)
(*   SpecLoop     the canned and interactive loops around the two models;  *)
(*   SpecQuick    the two quick_start scripts.                             *)
(*                                                                         *)
(* Units: money in whole dollars, probabilities in hundredths (0..100).    *)
(***************************************************************************)
EXTENDS Integers, Sequences, FiniteSets

VARIABLES
    \* ---- Spec: artifacts on disk
    disk,        \* file name -> 0 (no such file) or the training run that wrote it
    pc,          \* pipeline -> where its train_model stands
    runs,        \* pipeline -> number of training runs started
    written,     \* pipeline -> the artifact files the current/last run has written
    loadOut,     \* pipeline -> what the last load_model call saw and returned
    evaluated,   \* pipeline -> the metrics its running training process holds
    info_bytes,  \* pipeline -> what its metadata file holds
    \* ---- SpecPredict: the predictor
    model,         \* the fitted classifier handed to predict_churn
    model_info,    \* the metadata handed to predict_churn
    request,       \* customer_data of the last predict_churn call
    response,      \* what that call returned, and the vector it gave the model
    prev_request,  \* customer_data of the call before
    prev_response, \* and its outcome
    \* ---- SpecGen: the generators and numpy's global random state
    rng,         \* state of the process-wide random source
    genOut,      \* the last generator call: pipeline, n, outcome
    genPrev,     \* the generator call before
    drawsSince,  \* draws other code made from the random source since then
    \* ---- SpecRow: one generated row
    rowOut,
    \* ---- SpecLoop: the loops of the scripts around the models
    loop,        \* which loop made the last call
    printed,     \* what that loop printed for it
    price_model, \* the fitted LinearRegression
    price_info,  \* its model_info
    \* ---- SpecQuick: the two quick_start scripts
    qpc,         \* pipeline -> the step its quick_start.py is about to take
    qlog,        \* pipeline -> the steps it has run, each with its outcome
    qexit        \* pipeline -> how the script ended

artifactVars == <<disk, pc, runs, written, loadOut, evaluated, info_bytes>>
predictVars  == <<model, model_info, request, response, prev_request, prev_response>>
genVars      == <<rng, genOut, genPrev, drawsSince>>
rowVars      == <<rowOut>>
loopVars     == <<loop, printed, price_model, price_info>>
quickVars    == <<qpc, qlog, qexit>>
vars == <<artifactVars, predictVars, genVars, rowVars, loopVars, quickVars>>

Pipelines == {"churn", "price"}

\* What the steps of one specification leave alone: the others' state.
ArtifactsOnly == UNCHANGED <<predictVars, genVars, rowVars, loopVars, quickVars>>
PredictOnly == UNCHANGED <<artifactVars, genVars, rowVars, loopVars, quickVars>>
GenOnly == UNCHANGED <<artifactVars, predictVars, rowVars, loopVars, quickVars>>
RowOnly == UNCHANGED <<artifactVars, predictVars, genVars, loopVars, quickVars>>
LoopOnly == UNCHANGED <<artifactVars, genVars, rowVars, prev_request, prev_response, price_model, price_info, quickVars>>
QuickOnly == UNCHANGED <<artifactVars, predictVars, genVars, rowVars, loopVars>>

\* Python's None, and "nothing yet" for the bookkeeping variables.
None == [kind |-> "None"]
NotYet == [kind |-> "NotYet"]

(***************************************************************************)
(* Bounds of the model.                                                    *)
(***************************************************************************)
MaxRuns == 3       \* training runs started, both pipelines together

(***************************************************************************)
(*                   METADATA AND ITS SERIALISATION                        *)
(*                                                                         *)
(* Python values are trees: [t |-> "str" | "int" | "float" | "list" |      *)
(* "dict", v |-> ...]; a dict is the sequence of its items in insertion    *)
(* order. A float counts ten-thousandths.                                  *)
(***************************************************************************)

\* feature_columns of train_model, saved as feature_info['feature_names'].
FeatureNames ==
    <<"age", "tenure", "monthly_charges", "total_charges",
      "contract_type", "payment_method", "internet_service", "tech_support">>

\* features = ['bedrooms', 'bathrooms', 'sqft', 'age']: the columns of X, in
\* the order the model is fitted on, and the list model_info records.
features == <<"bedrooms", "bathrooms", "sqft", "age">>

PyStr(s) == [t |-> "str", v |-> s]
PyInt(n) == [t |-> "int", v |-> n]
PyFloat(x) == [t |-> "float", v |-> x]
PyList(items) == [t |-> "list", v |-> items]
PyDict(items) == [t |-> "dict", v |-> items]
Item(k, x) == [k |-> k, v |-> x]
StrList(names) == PyList([i \in DOMAIN names |-> PyStr(names[i])])

\* d[key] of a dict.
Get(d, key) == d.v[CHOOSE i \in DOMAIN d.v : d.v[i].k = key].v

Abs(n) == IF n < 0 THEN -n ELSE n

DigitChar == <<"0", "1", "2", "3", "4", "5", "6", "7", "8", "9">>

RECURSIVE NatDigits(_)
\* The decimal digits of a natural number.
NatDigits(n) ==
    IF n < 10 THEN <<DigitChar[n + 1]>>
    ELSE NatDigits(n \div 10) \o <<DigitChar[(n % 10) + 1]>>

RECURSIVE StripZeros(_)
StripZeros(s) ==
    IF Len(s) > 1 /\ s[Len(s)] = "0" THEN StripZeros(SubSeq(s, 1, Len(s) - 1)) ELSE s

\* The four fractional digits of a float.
FracDigits(f) ==
    <<DigitChar[(f \div 1000) + 1], DigitChar[((f \div 100) % 10) + 1],
      DigitChar[((f \div 10) % 10) + 1], DigitChar[(f % 10) + 1]>>

\* int.__repr__
int_repr(n) == (IF n < 0 THEN <<"-">> ELSE <<>>) \o NatDigits(Abs(n))

\* A float repr that loses the sign.
float_repr_unsigned(x) ==
    NatDigits(Abs(x) \div 10000) \o <<".">> \o StripZeros(FracDigits(Abs(x) % 10000))

\* float.__repr__: the shortest decimal that reads back as the same float,
\* always with a point and at least one fractional digit.
float_repr(x) ==
    (IF x < 0 THEN <<"-">> ELSE <<>>)
    \o NatDigits(Abs(x) \div 10000) \o <<".">> \o StripZeros(FracDigits(Abs(x) % 10000))

RECURSIVE DigitsNat(_)
\* int() of a run of digits.
DigitsNat(s) ==
    IF Len(s) = 0 THEN 0
    ELSE DigitsNat(SubSeq(s, 1, Len(s) - 1)) * 10
         + (CHOOSE i \in DOMAIN DigitChar : DigitChar[i] = s[Len(s)]) - 1

Pow10(k) == IF k = 0 THEN 1 ELSE IF k = 1 THEN 10 ELSE IF k = 2 THEN 100 ELSE IF k = 3 THEN 1000 ELSE 10000

\* The value of a JSON number: an int without a point, a float with one.
parse_number(chars) ==
    LET neg == chars[1] = "-"
        body == IF neg THEN SubSeq(chars, 2, Len(chars)) ELSE chars
        sign == IF neg THEN -1 ELSE 1
    IN IF \E i \in DOMAIN body : body[i] = "."
       THEN LET point == CHOOSE i \in DOMAIN body : body[i] = "."
                whole == SubSeq(body, 1, point - 1)
                frac == SubSeq(body, point + 1, Len(body))
            IN PyFloat(sign * (DigitsNat(whole) * 10000 + DigitsNat(frac) * Pow10(4 - Len(frac))))
       ELSE PyInt(sign * DigitsNat(body))

\* The text of a JSON document: punctuation, string literals, the characters
\* of numbers, and the white space of indent=2.
Punct(c) == [k |-> "punct", c |-> c]
Literal(s) == [k |-> "str", c |-> s]
Chars(cs) == [i \in DOMAIN cs |-> [k |-> "num", c |-> cs[i]]]
Space == [k |-> "ws", c |-> " "]

RECURSIVE json_dumps(_)
RECURSIVE json_items(_, _)
RECURSIVE json_members(_, _)

\* The elements of a list from the i-th on, each on its own line.
json_items(items, i) ==
    IF i > Len(items) THEN <<>>
    ELSE <<Space>> \o json_dumps(items[i])
         \o (IF i < Len(items) THEN <<Punct(",")>> ELSE <<Space>>)
         \o json_items(items, i + 1)

\* The members of an object from the i-th on.
json_members(items, i) ==
    IF i > Len(items) THEN <<>>
    ELSE <<Space, Literal(items[i].k), Punct(":"), Space>> \o json_dumps(items[i].v)
         \o (IF i < Len(items) THEN <<Punct(",")>> ELSE <<Space>>)
         \o json_members(items, i + 1)

\* json.dump(obj, f, indent=2)
json_dumps(x) ==
    CASE x.t = "str" -> <<Literal(x.v)>>
      [] x.t = "int" -> Chars(int_repr(x.v))
      [] x.t = "float" -> Chars(float_repr(x.v))
      [] x.t = "list" -> <<Punct("[")>> \o json_items(x.v, 1) \o <<Punct("]")>>
      [] x.t = "dict" -> <<Punct("{")>> \o json_members(x.v, 1) \o <<Punct("}")>>

\* The decoder's state: the open containers, the characters of the number
\* being read, and the finished document.
DecoderStart == [stack |-> <<>>, num |-> <<>>, out |-> [t |-> "nothing", v |-> <<>>], bad |-> FALSE]

\* A finished value goes to the innermost open container, or is the document.
Deliver(st, x) ==
    IF Len(st.stack) = 0 THEN [st EXCEPT !.out = x]
    ELSE LET top == st.stack[Len(st.stack)]
         IN IF top.t = "list"
            THEN [st EXCEPT !.stack[Len(st.stack)].v = Append(@, x)]
            ELSE [st EXCEPT !.stack[Len(st.stack)].v = Append(@, Item(top.key, x)),
                            !.stack[Len(st.stack)].haskey = FALSE]

\* A number ends at the first token that is not one of its characters.
FlushNumber(st) ==
    IF Len(st.num) = 0 THEN st
    ELSE Deliver([st EXCEPT !.num = <<>>], parse_number(st.num))

\* One token of the text.
DecodeToken(st0, tok) ==
    IF tok.k = "num" THEN [st0 EXCEPT !.num = Append(@, tok.c)]
    ELSE LET st == FlushNumber(st0)
         IN CASE tok.k = "ws" -> st
              [] tok.k = "str" ->
                   IF Len(st.stack) > 0 /\ st.stack[Len(st.stack)].t = "dict" /\ ~st.stack[Len(st.stack)].haskey
                   THEN [st EXCEPT !.stack[Len(st.stack)].key = tok.c,
                                   !.stack[Len(st.stack)].haskey = TRUE]
                   ELSE Deliver(st, PyStr(tok.c))
              [] tok.k = "punct" /\ tok.c = "{" ->
                   [st EXCEPT !.stack = Append(@, [t |-> "dict", v |-> <<>>, key |-> "", haskey |-> FALSE])]
              [] tok.k = "punct" /\ tok.c = "[" ->
                   [st EXCEPT !.stack = Append(@, [t |-> "list", v |-> <<>>, key |-> "", haskey |-> FALSE])]
              [] tok.k = "punct" /\ tok.c \in {"}", "]"} /\ Len(st.stack) = 0 ->
                   [st EXCEPT !.bad = TRUE]
              [] tok.k = "punct" /\ tok.c \in {"}", "]"} /\ Len(st.stack) > 0 ->
                   LET top == st.stack[Len(st.stack)]
                   IN Deliver([st EXCEPT !.stack = SubSeq(@, 1, Len(@) - 1)],
                              [t |-> top.t, v |-> top.v])
              [] OTHER -> st

RECURSIVE Decode(_, _, _, _)
\* The decoder's state after tokens lo..hi, read left to right from state
\* st; nothing is read after malformed text (JSONDecodeError).
Decode(text, lo, hi, st) ==
    IF lo > hi \/ st.bad THEN st
    ELSE IF lo = hi THEN DecodeToken(st, text[lo])
    ELSE Decode(text, ((lo + hi) \div 2) + 1, hi, Decode(text, lo, (lo + hi) \div 2, st))

\* json.load(f)
json_loads(text) == FlushNumber(Decode(text, 1, Len(text), DecoderStart)).out

\* The opcodes of a pickle, the format joblib.dump writes for plain objects.
Op(name) == [op |-> name]
OpArg(name, arg) == [op |-> name, arg |-> arg]

RECURSIVE pickle_save(_)
RECURSIVE pickle_batch(_, _)
RECURSIVE pickle_batch_items(_, _)

\* The elements of a list from the i-th on.
pickle_batch(items, i) ==
    IF i > Len(items) THEN <<>>
    ELSE pickle_save(items[i]) \o pickle_batch(items, i + 1)

\* The items of a dict from the i-th on: key, then value.
pickle_batch_items(items, i) ==
    IF i > Len(items) THEN <<>>
    ELSE <<OpArg("BINUNICODE", items[i].k)>> \o pickle_save(items[i].v)
         \o pickle_batch_items(items, i + 1)

\* Pickler.save(obj)
pickle_save(x) ==
    CASE x.t = "str" -> <<OpArg("BINUNICODE", x.v)>>
      [] x.t = "int" -> <<OpArg("BININT", x.v)>>
      [] x.t = "float" -> <<OpArg("BINFLOAT", x.v)>>
      [] x.t = "list" ->
           <<Op("EMPTY_LIST"), Op("MARK")>> \o pickle_batch(x.v, 1) \o <<Op("APPENDS")>>
      [] x.t = "dict" ->
           <<Op("EMPTY_DICT"), Op("MARK")>> \o pickle_batch_items(x.v, 1) \o <<Op("SETITEMS")>>

\* joblib.dump(obj, filename)
pickle_dumps(x) == <<Op("PROTO")>> \o pickle_save(x) \o <<Op("STOP")>>

\* The position of the topmost mark on the unpickler's stack.
TopMark(stack) == CHOOSE k \in DOMAIN stack : stack[k].t = "mark" /\ \A j \in (k + 1)..Len(stack) : stack[j].t # "mark"

\* The unpickler: its stack, and the object STOP has delivered.
UnpicklerStart == [stack |-> <<>>, out |-> [t |-> "nothing", v |-> <<>>]]

\* What one opcode does to the unpickler.
UnpickleOp(st, o) ==
    LET stack == st.stack
    IN CASE o.op = "BINUNICODE" -> [st EXCEPT !.stack = Append(@, PyStr(o.arg))]
         [] o.op = "BININT" -> [st EXCEPT !.stack = Append(@, PyInt(o.arg))]
         [] o.op = "BINFLOAT" -> [st EXCEPT !.stack = Append(@, PyFloat(o.arg))]
         [] o.op = "EMPTY_LIST" -> [st EXCEPT !.stack = Append(@, PyList(<<>>))]
         [] o.op = "EMPTY_DICT" -> [st EXCEPT !.stack = Append(@, PyDict(<<>>))]
         [] o.op = "MARK" -> [st EXCEPT !.stack = Append(@, [t |-> "mark", v |-> <<>>])]
         [] o.op = "APPENDS" ->
              LET k == TopMark(stack)
                  items == SubSeq(stack, k + 1, Len(stack))
              IN [st EXCEPT !.stack = SubSeq(stack, 1, k - 2) \o <<PyList(stack[k - 1].v \o items)>>]
         [] o.op = "SETITEMS" ->
              LET k == TopMark(stack)
                  items == SubSeq(stack, k + 1, Len(stack))
                  pairs == [j \in 1..(Len(items) \div 2) |-> Item(items[2 * j - 1].v, items[2 * j])]
              IN [st EXCEPT !.stack = SubSeq(stack, 1, k - 2) \o <<PyDict(stack[k - 1].v \o pairs)>>]
         [] o.op = "STOP" -> [st EXCEPT !.out = stack[Len(stack)]]
         [] OTHER -> st

RECURSIVE Unpickle(_, _, _, _)
\* The unpickler after opcodes lo..hi, executed in order from state st;
\* nothing is read after STOP.
Unpickle(ops, lo, hi, st) ==
    IF lo > hi \/ st.out.t # "nothing" THEN st
    ELSE IF lo = hi THEN UnpickleOp(st, ops[lo])
    ELSE Unpickle(ops, ((lo + hi) \div 2) + 1, hi, Unpickle(ops, lo, (lo + hi) \div 2, st))

\* joblib.load(filename)
pickle_loads(ops) == Unpickle(ops, 1, Len(ops), UnpicklerStart).out

\* Metrics a training run may measure. R2 on the held-out rows can be
\* negative; accuracy can be exactly 1.0.
PriceMetrics ==
    {[r2_score |-> 9512, rmse |-> 201234500],
     [r2_score |-> -1250, rmse |-> 350000007]}

ChurnMetrics ==
    {[accuracy |-> 8350, importances |-> <<500, 3100, 2200, 1900, 1200, 450, 300, 350>>],
     [accuracy |-> 10000, importances |-> <<1250, 2000, 1500, 1750, 1000, 750, 1100, 650>>]}

RECURSIVE sort_values(_)
\* DataFrame.sort_values('importance', ascending=False)
sort_values(rows) ==
    IF Len(rows) <= 1 THEN rows
    ELSE LET top == CHOOSE i \in DOMAIN rows : \A j \in DOMAIN rows : rows[j].importance < rows[i].importance \/ (rows[j].importance = rows[i].importance /\ i <= j)
         IN <<rows[top]>> \o sort_values([k \in 1..(Len(rows) - 1) |-> IF k < top THEN rows[k] ELSE rows[k + 1]])

\* feature_info of the churn train_model.
feature_info(metrics) ==
    LET feature_importance ==
            sort_values([i \in DOMAIN FeatureNames |->
                           [feature |-> FeatureNames[i], importance |-> metrics.importances[i]]])
    IN PyDict(<<Item("feature_names", StrList(FeatureNames)),
                Item("model_type", PyStr("RandomForestClassifier")),
                Item("accuracy", PyFloat(metrics.accuracy)),
                Item("feature_importance",
                     PyList([i \in DOMAIN feature_importance |->
                               PyDict(<<Item("feature", PyStr(feature_importance[i].feature)),
                                        Item("importance", PyFloat(feature_importance[i].importance))>>)]))>>)

\* model_info of the price train_model.
price_model_info(metrics) ==
    PyDict(<<Item("model_type", PyStr("LinearRegression")),
             Item("features", StrList(features)),
             Item("feature_descriptions",
                  PyDict(<<Item("bedrooms", PyStr("Number of bedrooms (1-5)")),
                           Item("bathrooms", PyStr("Number of bathrooms (1-3)")),
                           Item("sqft", PyStr("Square footage (800-4000)")),
                           Item("age", PyStr("Age of house in years (0-50)"))>>)),
             Item("target", PyStr("price")),
             Item("target_description", PyStr("House price in USD")),
             Item("performance",
                  PyDict(<<Item("r2_score", PyFloat(metrics.r2_score)),
                           Item("rmse", PyFloat(metrics.rmse))>>)),
             Item("sample_input",
                  PyDict(<<Item("bedrooms", PyInt(3)), Item("bathrooms", PyInt(2)),
                           Item("sqft", PyInt(1500)), Item("age", PyInt(10))>>))>>)

\* The metadata a run builds from what it measured.
BuildInfo(p, metrics) == IF p = "churn" THEN feature_info(metrics) ELSE price_model_info(metrics)

\* The metadata file's bytes: a pickle for churn, JSON text for price.
InfoDumps(p, info) == IF p = "churn" THEN pickle_dumps(info) ELSE json_dumps(info)

InfoLoads(p, bytes) == IF p = "churn" THEN pickle_loads(bytes) ELSE json_loads(bytes)

\* The feature-name sequence and the metrics a metadata object carries.
InfoFeatureNames(p, info) ==
    LET names == IF p = "churn" THEN Get(info, "feature_names") ELSE Get(info, "features")
    IN [i \in DOMAIN names.v |-> names.v[i].v]

InfoMetrics(p, info) ==
    IF p = "churn" THEN <<Get(info, "accuracy"), Get(info, "feature_importance")>>
    ELSE <<Get(Get(info, "performance"), "r2_score"), Get(Get(info, "performance"), "rmse")>>

(***************************************************************************)
(*                      ARTIFACT WRITER AND LOADER                         *)
(***************************************************************************)

\* The two file names each pipeline uses.
ModelFile(p) == IF p = "churn" THEN "customer_churn_model.pkl"
                ELSE "house_price_model.pkl"

InfoFile(p) == IF p = "churn" THEN "model_info.pkl" ELSE "model_info.json"

Files == {ModelFile(p) : p \in Pipelines} \cup {InfoFile(p) : p \in Pipelines}

TrainScript(p) == IF p = "churn" THEN "train_churn_model.py" ELSE "train_model.py"

\* The pipeline's training process is not between its two writes.
Quiet(p) == pc[p] \in {"idle", "done", "failed"}

ParkArtifacts ==
    /\ disk = [f \in Files |-> 0]
    /\ pc = [p \in Pipelines |-> "idle"]
    /\ runs = [p \in Pipelines |-> 0]
    /\ written = [p \in Pipelines |-> {}]
    /\ loadOut = [p \in Pipelines |-> NotYet]
    /\ evaluated = [p \in Pipelines |-> None]
    /\ info_bytes = [p \in Pipelines |-> None]

InitArtifacts == ParkArtifacts

\* train_model up to the save step: data generation, split, fit, evaluation.
TrainFit(p) ==
    /\ Quiet(p)
    /\ runs["churn"] + runs["price"] < MaxRuns
    /\ runs' = [runs EXCEPT ![p] = @ + 1]
    /\ pc' = [pc EXCEPT ![p] = "fitted"]
    /\ written' = [written EXCEPT ![p] = {}]
    /\ \E metrics \in (IF p = "churn" THEN ChurnMetrics ELSE PriceMetrics) :
         evaluated' = [evaluated EXCEPT ![p] = metrics]
    /\ UNCHANGED <<disk, loadOut, info_bytes>>
    /\ ArtifactsOnly

\* joblib.dump(model, model_path). A write that fails raises before the file
\* is replaced; the exception leaves train_model, and what the process held
\* in memory goes with it.
DumpModel(p) ==
    /\ pc[p] = "fitted"
    /\ \E ok \in BOOLEAN :
         IF ok
         THEN /\ disk' = [disk EXCEPT ![ModelFile(p)] = runs[p]]
              /\ written' = [written EXCEPT ![p] = @ \cup {ModelFile(p)}]
              /\ pc' = [pc EXCEPT ![p] = "model_saved"]
              /\ UNCHANGED evaluated
         ELSE /\ pc' = [pc EXCEPT ![p] = "failed"]
              /\ evaluated' = [evaluated EXCEPT ![p] = None]
              /\ UNCHANGED <<disk, written>>
    /\ UNCHANGED <<runs, loadOut, info_bytes>>
    /\ ArtifactsOnly

\* The metadata write: joblib.dump(feature_info, 'model_info.pkl') for churn,
\* json.dump into open('model_info.json', 'w') for price. Nothing undoes the
\* model file when this write raises.
DumpInfo(p) ==
    /\ pc[p] = "model_saved"
    /\ \E ok \in BOOLEAN :
         IF ok
         THEN /\ disk' = [disk EXCEPT ![InfoFile(p)] = runs[p]]
              /\ info_bytes' = [info_bytes EXCEPT ![p] =
                                  [kind |-> "file",
                                   bytes |-> InfoDumps(p, BuildInfo(p, evaluated[p])),
                                   saved |-> BuildInfo(p, evaluated[p])]]
              /\ written' = [written EXCEPT ![p] = @ \cup {InfoFile(p)}]
              /\ pc' = [pc EXCEPT ![p] = "done"]
         ELSE /\ pc' = [pc EXCEPT ![p] = "failed"]
              /\ UNCHANGED <<disk, written, info_bytes>>
    /\ evaluated' = [evaluated EXCEPT ![p] = None]
    /\ UNCHANGED <<runs, loadOut>>
    /\ ArtifactsOnly

\* The operator removes an artifact file from the working directory: the
\* condition load_model's except branch exists for.
RemoveFile(f) ==
    /\ disk[f] # 0
    /\ \A p \in Pipelines : Quiet(p)
    /\ disk' = [disk EXCEPT ![f] = 0]
    /\ info_bytes' = [p \in Pipelines |-> IF f = InfoFile(p) THEN None ELSE info_bytes[p]]
    /\ UNCHANGED <<pc, runs, written, loadOut, evaluated>>
    /\ ArtifactsOnly

\* What load_model prints and returns when a read raises FileNotFoundError.
FileNotFound(p, f) ==
    [outcome |-> "returned", model |-> None, model_info |-> None,
     printed |-> <<"not found", f, "run first", TrainScript(p)>>]

\* A load_model whose try guards the model read only: a missing metadata
\* file ends the script with an uncaught exception.
load_model_unguarded_info(p, d, b) ==
    IF d[ModelFile(p)] = 0 THEN FileNotFound(p, ModelFile(p))
    ELSE IF d[InfoFile(p)] = 0
         THEN [outcome |-> "crashed", model |-> None, model_info |-> None,
               printed |-> <<>>]
    ELSE [outcome |-> "returned",
          model |-> [kind |-> "model", run |-> d[ModelFile(p)]],
          model_info |-> [kind |-> "info", run |-> d[InfoFile(p)],
                          data |-> InfoLoads(p, b[p].bytes)],
          printed |-> <<>>]

\* A load_model that keeps the model it has read when only the metadata
\* file is missing.
load_model_partial(p, d, b) ==
    IF d[ModelFile(p)] = 0 THEN FileNotFound(p, ModelFile(p))
    ELSE IF d[InfoFile(p)] = 0
         THEN [outcome |-> "returned",
               model |-> [kind |-> "model", run |-> d[ModelFile(p)]],
               model_info |-> None,
               printed |-> <<"not found", InfoFile(p), "run first", TrainScript(p)>>]
    ELSE [outcome |-> "returned",
          model |-> [kind |-> "model", run |-> d[ModelFile(p)]],
          model_info |-> [kind |-> "info", run |-> d[InfoFile(p)],
                          data |-> InfoLoads(p, b[p].bytes)],
          printed |-> <<>>]

\* load_model: the model file is read first, then the metadata file, both
\* inside one try whose except FileNotFoundError returns (None, None). The
\* metadata returned is what joblib.load / json.load make of the file's bytes.
load_model(p, d, b) ==
    IF d[ModelFile(p)] = 0 THEN FileNotFound(p, ModelFile(p))
    ELSE IF d[InfoFile(p)] = 0 THEN FileNotFound(p, InfoFile(p))
    ELSE [outcome |-> "returned",
          model |-> [kind |-> "model", run |-> d[ModelFile(p)]],
          model_info |-> [kind |-> "info", run |-> d[InfoFile(p)],
                          data |-> InfoLoads(p, b[p].bytes)],
          printed |-> <<>>]

\* What the testing script does with load_model's result: "if model is
\* None" the churn test_model returns and the price script calls exit(1);
\* otherwise the script goes on to its predictions.
AfterLoad(p, ret) ==
    IF ret.outcome = "crashed" THEN [step |-> "crashed", status |-> 1]
    ELSE IF ret.model = None
         THEN IF p = "churn" THEN [step |-> "returned", status |-> 0]
              ELSE [step |-> "exited", status |-> 1]
    ELSE [step |-> "testing", status |-> 0]

\* The start of the pipeline's testing script: load_model and the test of
\* its result.
LoadModel(p) ==
    /\ Quiet(p)
    /\ loadOut' = [loadOut EXCEPT ![p] =
                     [kind |-> "load",
                      model_there |-> disk[ModelFile(p)] # 0,
                      info_there |-> disk[InfoFile(p)] # 0,
                      info_saved |-> IF info_bytes[p] = None THEN None
                                     ELSE info_bytes[p].saved,
                      ret |-> load_model(p, disk, info_bytes),
                      script |-> AfterLoad(p, load_model(p, disk, info_bytes))]]
    /\ UNCHANGED <<disk, pc, runs, written, evaluated, info_bytes>>
    /\ ArtifactsOnly

\* The rest of the testing script: it prints fields of model_info and runs
\* its predictions on model. A model_info of None raises TypeError there.
RunTests(p) ==
    /\ loadOut[p] # NotYet
    /\ loadOut[p].script.step = "testing"
    /\ loadOut' = [loadOut EXCEPT ![p].script =
                     IF loadOut[p].ret.model_info = None \/ loadOut[p].ret.model = None
                     THEN [step |-> "crashed", status |-> 1]
                     ELSE [step |-> "predicted", status |-> 0]]
    /\ UNCHANGED <<disk, pc, runs, written, evaluated, info_bytes>>
    /\ ArtifactsOnly

(***************************************************************************)
(*                              PREDICTOR                                  *)
(***************************************************************************)

\* Two of the canned profiles of test_model, as the dict literals list them.
LoyalLongTerm ==
    <<[name |-> "age", value |-> 55], [name |-> "tenure", value |-> 60],
      [name |-> "monthly_charges", value |-> 70],
      [name |-> "total_charges", value |-> 4200],
      [name |-> "contract_type", value |-> 2],
      [name |-> "payment_method", value |-> 3],
      [name |-> "internet_service", value |-> 0],
      [name |-> "tech_support", value |-> 1]>>

NewHighValue ==
    <<[name |-> "age", value |-> 30], [name |-> "tenure", value |-> 2],
      [name |-> "monthly_charges", value |-> 110],
      [name |-> "total_charges", value |-> 220],
      [name |-> "contract_type", value |-> 0],
      [name |-> "payment_method", value |-> 0],
      [name |-> "internet_service", value |-> 1],
      [name |-> "tech_support", value |-> 0]>>

Profiles == {LoyalLongTerm, NewHighValue}

\* Keys a caller may send that the schema does not know.
ExtraNames == {"plan", "customer_id"}
MaxExtra == 1      \* unknown keys per mapping
\* Required keys a caller may leave out.
Droppable == {"tenure"}

Reverse(s) == [i \in 1..Len(s) |-> s[Len(s) + 1 - i]]

RECURSIVE SetToSeq(_)
SetToSeq(S) ==
    IF S = {} THEN <<>>
    ELSE LET x == CHOOSE y \in S : TRUE IN <<x>> \o SetToSeq(S \ {x})

Without(s, names) == SelectSeq(s, LAMBDA kv : kv.name \notin names)

WithExtras(s, names) ==
    s \o [i \in 1..Cardinality(names) |->
            [name |-> SetToSeq(names)[i], value |-> 7]]

\* The mappings handed to predict_churn: a Python dict keeps the order its
\* keys were inserted in, so a mapping is a sequence of name/value pairs with
\* distinct names.
CustomerData ==
    LET shaped ==
          {WithExtras(Without(prof, drop), extra) :
             prof \in Profiles,
             drop \in SUBSET Droppable,
             extra \in {E \in SUBSET ExtraNames : Cardinality(E) <= MaxExtra}}
    IN shaped \cup {Reverse(s) : s \in shaped}

Columns(df) == {df[i].name : i \in DOMAIN df}

Cell(df, name) == (CHOOSE kv \in {df[i] : i \in DOMAIN df} : kv.name = name).value

Pairs(df) == {df[i] : i \in DOMAIN df}

\* A selection that takes the row as the mapping lists it.
SelectColumnsNoReorder(input_df, names) ==
    LET missing == {names[i] : i \in DOMAIN names} \ Columns(input_df)
    IN IF missing # {}
       THEN [raised |-> TRUE, error |-> [type |-> "KeyError", names |-> missing],
             row |-> <<>>]
       ELSE [raised |-> FALSE, error |-> None,
             row |-> [i \in 1..Len(names) |-> input_df[i].value]]

\* A selection that fills an absent column (reindex with a fill value).
SelectColumnsFill(input_df, names) ==
    [raised |-> FALSE, error |-> None,
     row |-> [i \in 1..Len(names) |->
                IF names[i] \in Columns(input_df)
                THEN Cell(input_df, names[i]) ELSE 0]]

\* input_df[model_info['feature_names']] on the one-row frame built from the
\* mapping: KeyError when a listed name is no column, else the listed columns
\* in the listed order; columns that are not listed are left behind.
SelectColumns(input_df, names) ==
    LET missing == {names[i] : i \in DOMAIN names} \ Columns(input_df)
    IN IF missing # {}
       THEN [raised |-> TRUE, error |-> [type |-> "KeyError", names |-> missing],
             row |-> <<>>]
       ELSE [raised |-> FALSE, error |-> None,
             row |-> [i \in 1..Len(names) |-> Cell(input_df, names[i])]]

RECURSIVE Dot(_, _)
Dot(w, x) == IF Len(w) = 0 \/ Len(x) = 0 THEN 0
             ELSE Head(w) * Head(x) + Dot(Tail(w), Tail(x))

\* The fitted classifier is opaque: any function of the feature vector that
\* tells the positions apart. It is drawn when the specification starts.
Weights == <<1, 2, 3, 4, 5, 6, 7, 8>>

Models == {[bias |-> b, w |-> Weights, usable |-> TRUE] : b \in 0..100}

\* float('inf'), which float(input(...)) accepts: above every finite input.
Inf == 1000000000

\* The exception model.predict raises on this input, or None: a model file
\* saved under another library version unpickles but cannot predict, and the
\* estimator validates its input and refuses a non-finite value.
ModelRaises(m, x) ==
    IF ~m.usable THEN [type |-> "AttributeError", names |-> {}]
    ELSE IF \E i \in DOMAIN x : x[i] >= Inf
         THEN [type |-> "ValueError", names |-> {}]
    ELSE None

\* model.predict_proba(input_df)[0]: the two class probabilities, hundredths.
predict_proba(m, x) ==
    LET p1 == (m.bias + Dot(m.w, x)) % 101 IN <<100 - p1, p1>>

\* model.predict(input_df)[0]: the class with the larger probability.
predict(m, x) == IF predict_proba(m, x)[2] > predict_proba(m, x)[1] THEN 1 ELSE 0

\* The thresholds with the upper one inclusive.
RiskLevelInclusive(churn_probability) ==
    IF churn_probability >= 70 THEN "High"
    ELSE IF churn_probability > 30 THEN "Medium"
    ELSE "Low"

\* The risk level of predict_churn.
RiskLevel(churn_probability) ==
    IF churn_probability > 70 THEN "High"
    ELSE IF churn_probability > 30 THEN "Medium"
    ELSE "Low"

NoModelCall == [called |-> FALSE, vector |-> <<>>]

\* The label with the classes swapped.
PredictionLabelSwapped(prediction) == IF prediction = 0 THEN "Churn" ELSE "No Churn"

\* 'Churn' if prediction == 1 else 'No Churn'
PredictionLabel(prediction) == IF prediction = 1 THEN "Churn" ELSE "No Churn"

\* predict_churn: what it returns (ret) and what it handed to the model. Any
\* exception inside, from the column selection or from the model, comes back
\* as {'error': str(e)}.
predict_churn(m, info, customer_data) ==
    LET sel == SelectColumns(customer_data, info.feature_names)
    IN IF sel.raised
       THEN [kind |-> "outcome", ret |-> [error |-> sel.error],
             model_input |-> NoModelCall]
       ELSE IF ModelRaises(m, sel.row) # None
       THEN [kind |-> "outcome", ret |-> [error |-> ModelRaises(m, sel.row)],
             model_input |-> [called |-> TRUE, vector |-> sel.row]]
       ELSE LET prediction == predict(m, sel.row)
                probabilities == predict_proba(m, sel.row)
                churn_probability == probabilities[2]
            IN [kind |-> "outcome",
                ret |-> [prediction |-> prediction,
                         churn_probability |-> churn_probability,
                         no_churn_probability |-> probabilities[1],
                         risk_level |-> RiskLevel(churn_probability),
                         prediction_label |-> PredictionLabel(prediction)],
                model_input |-> [called |-> TRUE, vector |-> sel.row]]

ParkPredict ==
    /\ model = None
    /\ model_info = None
    /\ request = NotYet
    /\ response = NotYet
    /\ prev_request = NotYet
    /\ prev_response = NotYet

InitPredict ==
    /\ model \in Models
    /\ model_info = [feature_names |-> FeatureNames,
                     model_type |-> "RandomForestClassifier"]
    /\ request = NotYet
    /\ response = NotYet
    /\ prev_request = NotYet
    /\ prev_response = NotYet

\* One call of predict_churn by the testing script.
PredictChurn ==
    \E customer_data \in CustomerData :
        /\ prev_request' = request
        /\ prev_response' = response
        /\ request' = [kind |-> "call", data |-> customer_data]
        /\ response' = predict_churn(model, model_info, customer_data)
        /\ UNCHANGED <<model, model_info>>
        /\ PredictOnly

(***************************************************************************)
(*                          DATA SYNTHESIZERS                              *)
(***************************************************************************)

RngMod == 64       \* states of the modelled random source
MaxN == 2          \* largest n_samples asked of a generator
MaxDraws == 2      \* counted draws by other code between two generator calls
NoiseSigmas == 4   \* a normal draw lies within this many standard deviations

\* The seed both generators set.
Seed == 42

\* numpy's global RandomState as a congruential generator: the state after one
\* more raw draw. The raw value drawn is the new state.
Advance(r) == (5 * r + 3) % RngMod

\* A generator that leaves the random source as it finds it.
SeedAtEntryMissing(r) == r

\* np.random.seed(42), the first statement of both generators.
SeedAtEntry(r) == Seed % RngMod

\* size-n array draw: n raw values in stream order, and the state after them.
RECURSIVE RawArray(_, _)
RawArray(r, n) ==
    IF n = 0 THEN [vals |-> <<>>, rng |-> r]
    ELSE LET rest == RawArray(Advance(r), n - 1)
         IN [vals |-> <<Advance(r)>> \o rest.vals, rng |-> rest.rng]

\* The distributions, as maps from a raw draw to a value of the support.
randint(low, high, raw) == low + (raw % (high - low))

uniform(low, high, raw) == low + (raw % (high - low))

normal(loc, scale, raw) == loc + ((raw % (2 * NoiseSigmas + 1)) - NoiseSigmas) * scale

choice(values, raw) == values[1 + (raw % Len(values))]

\* One Bernoulli trial at probability p hundredths; u is a uniform draw from
\* 0..99.
binomial1(p, u) == IF (u % 100) < p THEN 1 ELSE 0

\* No floor: the first argument is passed through.
np_maximum_passthrough(a, b) == a

\* np.maximum(a, b)
np_maximum(a, b) == IF a >= b THEN a ELSE b

\* No clipping: the sum is used as it is.
np_clip_passthrough(x, lo, hi) == x

\* np.clip(x, lo, hi)
np_clip(x, lo, hi) == IF x < lo THEN lo ELSE IF x > hi THEN hi ELSE x

Ind(b) == IF b THEN 1 ELSE 0

\* total_charges of one churn row.
TotalCharges(monthly_charges, tenure, noise) ==
    np_maximum(monthly_charges * tenure + noise, 20)

\* The affine combination of the indicators, hundredths, before clipping.
ChurnSum(age, tenure, monthly_charges, contract_type, payment_method, internet_service, tech_support) ==
    10 + 30 * Ind(tenure < 6)
       + 20 * Ind(contract_type = 0)
       + 15 * Ind(payment_method = 0)
       + 10 * Ind(monthly_charges > 80)
       + 10 * Ind(age < 30)
       + (-15) * Ind(tech_support = 1)
       + 10 * Ind(internet_service = 1)

\* churn_probability of one churn row.
ChurnProbability(age, tenure, monthly_charges, contract_type, payment_method, internet_service, tech_support) ==
    np_clip(ChurnSum(age, tenure, monthly_charges, contract_type,
                     payment_method, internet_service, tech_support), 0, 100)

\* prices of one house row.
Price(bedrooms, bathrooms, sqft, age, noise) ==
    np_maximum(50000 + bedrooms * 25000 + bathrooms * 15000 + sqft * 100
                 - age * 1000 + noise,
               50000)

\* Both generators raise inside their first array draw when n_samples < 0
\* (numpy refuses a negative size); the seed has been set by then.
NegativeSize(r) ==
    [raised |-> TRUE, error |-> "ValueError: negative dimensions are not allowed",
     data |-> None, rng |-> SeedAtEntry(r)]

\* generate_synthetic_data(n_samples): the dataset, column by column, and the
\* state it leaves the random source in.
generate_synthetic_data(r, n) ==
    IF n < 0 THEN NegativeSize(r)
    ELSE
    LET a1 == RawArray(SeedAtEntry(r), n)
        a2 == RawArray(a1.rng, n)
        a3 == RawArray(a2.rng, n)
        a4 == RawArray(a3.rng, n)
        a5 == RawArray(a4.rng, n)
        a6 == RawArray(a5.rng, n)
        a7 == RawArray(a6.rng, n)
        a8 == RawArray(a7.rng, n)
        a9 == RawArray(a8.rng, n)
        I == 1..n
        age == [i \in I |-> randint(18, 81, a1.vals[i])]
        tenure == [i \in I |-> randint(1, 73, a2.vals[i])]
        monthly_charges == [i \in I |-> uniform(20, 120, a3.vals[i])]
        total_charges ==
            [i \in I |-> TotalCharges(monthly_charges[i], tenure[i],
                                      normal(0, 100, a4.vals[i]))]
        contract_type == [i \in I |-> choice(<<0, 1, 2>>, a5.vals[i])]
        payment_method == [i \in I |-> choice(<<0, 1, 2, 3>>, a6.vals[i])]
        internet_service == [i \in I |-> choice(<<0, 1, 2>>, a7.vals[i])]
        tech_support == [i \in I |-> choice(<<0, 1>>, a8.vals[i])]
        churn_probability ==
            [i \in I |-> ChurnProbability(age[i], tenure[i], monthly_charges[i],
                                          contract_type[i], payment_method[i],
                                          internet_service[i], tech_support[i])]
        churn == [i \in I |-> binomial1(churn_probability[i], a9.vals[i])]
    IN [raised |-> FALSE, error |-> "",
        data |-> [age |-> age, tenure |-> tenure,
                  monthly_charges |-> monthly_charges,
                  total_charges |-> total_charges,
                  contract_type |-> contract_type,
                  payment_method |-> payment_method,
                  internet_service |-> internet_service,
                  tech_support |-> tech_support,
                  churn |-> churn],
        rng |-> a9.rng]

\* generate_sample_data(n_samples) of the price pipeline.
generate_sample_data(r, n) ==
    IF n < 0 THEN NegativeSize(r)
    ELSE
    LET a1 == RawArray(SeedAtEntry(r), n)
        a2 == RawArray(a1.rng, n)
        a3 == RawArray(a2.rng, n)
        a4 == RawArray(a3.rng, n)
        a5 == RawArray(a4.rng, n)
        I == 1..n
        bedrooms == [i \in I |-> randint(1, 6, a1.vals[i])]
        bathrooms == [i \in I |-> randint(1, 4, a2.vals[i])]
        sqft == [i \in I |-> randint(800, 4000, a3.vals[i])]
        age == [i \in I |-> randint(0, 50, a4.vals[i])]
        prices == [i \in I |-> Price(bedrooms[i], bathrooms[i], sqft[i], age[i],
                                     normal(0, 20000, a5.vals[i]))]
    IN [raised |-> FALSE, error |-> "",
        data |-> [bedrooms |-> bedrooms, bathrooms |-> bathrooms,
                  sqft |-> sqft, age |-> age, price |-> prices],
        rng |-> a5.rng]

Generator(p, r, n) ==
    IF p = "churn" THEN generate_synthetic_data(r, n)
    ELSE generate_sample_data(r, n)

ParkGen ==
    /\ rng = 0
    /\ genOut = NotYet
    /\ genPrev = NotYet
    /\ drawsSince = 0

\* The random source starts in whatever state the process left it.
InitGen ==
    /\ rng \in 0..(RngMod - 1)
    /\ genOut = NotYet
    /\ genPrev = NotYet
    /\ drawsSince = 0

\* A call of pipeline p's generator with n_samples = n.
Generate(p, n) ==
    LET out == Generator(p, rng, n)
    IN /\ genPrev' = genOut
       /\ genOut' = [kind |-> "call", pipeline |-> p, n |-> n,
                     rng_before |-> rng, raised |-> out.raised,
                     error |-> out.error, data |-> out.data]
       /\ rng' = out.rng
       /\ drawsSince' = 0
       /\ GenOnly

\* Any other draw from the process-wide source, such as the
\* np.random.uniform(50, 150) of the churn testing script.
OtherDraw ==
    /\ drawsSince < MaxDraws
    /\ rng' = Advance(rng)
    /\ drawsSince' = drawsSince + 1
    /\ UNCHANGED <<genOut, genPrev>>
    /\ GenOnly

(***************************************************************************)
(* One generated row, with every random draw left free.                    *)
(***************************************************************************)

Sigmas == (-NoiseSigmas)..NoiseSigmas

ParkRow == rowOut = NotYet

InitRow == rowOut = NotYet

\* One row of generate_sample_data: the four feature draws and the noise.
PriceRow ==
    /\ rowOut = NotYet
    /\ RowOnly
    /\ \E bedrooms \in {1, 5}, bathrooms \in {1, 3}, sqft \in {800, 3999},
          age \in {0, 49}, k \in Sigmas :
        rowOut' = [kind |-> "price", bedrooms |-> bedrooms,
                   bathrooms |-> bathrooms, sqft |-> sqft, age |-> age,
                   noise |-> k * 20000,
                   price |-> Price(bedrooms, bathrooms, sqft, age, k * 20000)]

\* One row of generate_synthetic_data: the feature draws, the noise of
\* total_charges and the uniform draw u behind the Bernoulli trial.
ChurnRow ==
    /\ rowOut = NotYet
    /\ RowOnly
    /\ \E age \in {29, 30}, tenure \in {1, 5, 6}, monthly_charges \in {20, 80, 81},
          k \in Sigmas, contract_type \in 0..2, payment_method \in 0..3,
          internet_service \in 0..2, tech_support \in 0..1, u \in {0, 50, 99} :
        LET p == ChurnProbability(age, tenure, monthly_charges, contract_type,
                                  payment_method, internet_service, tech_support)
        IN rowOut' = [kind |-> "churn", age |-> age, tenure |-> tenure,
                      monthly_charges |-> monthly_charges,
                      noise |-> k * 100,
                      total_charges |->
                          TotalCharges(monthly_charges, tenure, k * 100),
                      contract_type |-> contract_type,
                      payment_method |-> payment_method,
                      internet_service |-> internet_service,
                      tech_support |-> tech_support,
                      churn_probability |-> p, u |-> u,
                      churn |-> binomial1(p, u)]

(***************************************************************************)
(*                     THE LOOPS AROUND THE MODELS                         *)
(***************************************************************************)

Row8(a, t, mc, tc, c, pm, i, ts) ==
    <<[name |-> "age", value |-> a], [name |-> "tenure", value |-> t],
      [name |-> "monthly_charges", value |-> mc],
      [name |-> "total_charges", value |-> tc],
      [name |-> "contract_type", value |-> c],
      [name |-> "payment_method", value |-> pm],
      [name |-> "internet_service", value |-> i],
      [name |-> "tech_support", value |-> ts]>>

\* test_customers of test_model: name and profile of the five canned cases.
test_customers ==
    <<[name |-> "Loyal Long-term Customer", profile |-> LoyalLongTerm],
      [name |-> "New High-Value Customer", profile |-> NewHighValue],
      [name |-> "Budget-Conscious Customer",
       profile |-> Row8(40, 24, 35, 840, 1, 2, 2, 0)],
      [name |-> "Young Professional",
       profile |-> Row8(28, 8, 85, 680, 0, 3, 1, 1)],
      [name |-> "Senior Customer",
       profile |-> Row8(68, 48, 45, 2160, 2, 1, 0, 1)]>>

\* The body of the canned loop after the call: the error line, or the three
\* result lines.
canned_report(result) ==
    IF "error" \in DOMAIN result
    THEN <<[tag |-> "Error", arg |-> result.error]>>
    ELSE <<[tag |-> "Prediction", arg |-> [label |-> result.prediction_label]],
           [tag |-> "Churn Probability",
            arg |-> [hundredths |-> result.churn_probability]],
           [tag |-> "Risk Level", arg |-> [level |-> result.risk_level]]>>

\* The body of the interactive loop after the call. It reads
\* result['prediction_label'] without looking for 'error': on a failed call
\* that lookup raises KeyError, and the loop's last handler prints the
\* KeyError.
interactive_report(result, customer_data, processingTime) ==
    IF "prediction_label" \notin DOMAIN result
    THEN <<[tag |-> "Prediction Results", arg |-> None],
           [tag |-> "Error",
            arg |-> [type |-> "KeyError", names |-> {"prediction_label"}]]>>
    ELSE <<[tag |-> "Prediction Results", arg |-> None],
           [tag |-> "Prediction", arg |-> [label |-> result.prediction_label]],
           [tag |-> "Churn Probability",
            arg |-> [hundredths |-> result.churn_probability]],
           [tag |-> "Risk Level", arg |-> [level |-> result.risk_level]],
           [tag |-> "API Response Format",
            arg |-> [modelId |-> "customer-churn-classifier",
                     prediction |-> result.prediction,
                     probability |-> result.churn_probability,
                     confidence |-> IF result.churn_probability >= result.no_churn_probability
                                    THEN result.churn_probability
                                    ELSE result.no_churn_probability,
                     risk_level |-> result.risk_level,
                     prediction_label |-> result.prediction_label,
                     processingTime |-> processingTime,
                     input |-> customer_data]]>>

\* What the operator may type at the prompts: int(...) for the whole-number
\* fields, float(...) for the two charges, which also accepts "inf".

\* test_cases of test_sample_predictions in the training script.
test_cases ==
    <<[name |-> "Low Risk Customer", data |-> Row8(45, 36, 65, 2340, 2, 3, 0, 1)],
      [name |-> "High Risk Customer", data |-> Row8(25, 3, 95, 285, 0, 0, 1, 0)],
      [name |-> "Medium Risk Customer", data |-> Row8(35, 18, 75, 1350, 1, 2, 0, 1)]>>

\* The rule with both thresholds inclusive.
SampleRiskLabelDrifted(probability) ==
    IF probability >= 70 THEN "High"
    ELSE IF probability >= 30 THEN "Medium"
    ELSE "Low"

\* 'High' if probability > 0.7 else 'Medium' if probability > 0.3 else 'Low'
SampleRiskLabel(probability) ==
    IF probability > 70 THEN "High"
    ELSE IF probability > 30 THEN "Medium"
    ELSE "Low"

\* What test_sample_predictions prints for one test case.
sample_report(m, feature_columns, data) ==
    LET input_data == SelectColumns(data, feature_columns).row
        prediction == predict(m, input_data)
        probability == predict_proba(m, input_data)[2]
    IN <<[tag |-> "Prediction",
          arg |-> [label |-> IF prediction = 1 THEN "Churn" ELSE "No Churn"]],
         [tag |-> "Churn Probability", arg |-> [hundredths |-> probability]],
         [tag |-> "Risk Level", arg |-> [level |-> SampleRiskLabel(probability)]]>>

\* Fitted price models: an intercept and one coefficient per column of X.
PriceModels ==
    {[intercept |-> 50000,
      coef |-> [bedrooms |-> 25000, bathrooms |-> 15000, sqft |-> 100, age |-> -1000]],
     [intercept |-> 48210,
      coef |-> [bedrooms |-> 25730, bathrooms |-> 14380, sqft |-> 101, age |-> -985]]}

\* model.predict([x])[0] of the price model: coefficient k multiplies
\* position k of the vector.
price_predict(m, x) == m.intercept + Dot([k \in DOMAIN features |-> m.coef[features[k]]], x)

Names(labelled) == [k \in DOMAIN labelled |-> labelled[k].name]
Values(labelled) == [k \in DOMAIN labelled |-> labelled[k].value]

\* The layout the source gives its literal vectors: "3br, 2ba, 1500sqft,
\* 10 years old" in the training script, "[bedrooms, bathrooms, sqft, age]"
\* above the canned cases.
LiteralVector(a, b, c, d) ==
    <<[name |-> "bedrooms", value |-> a], [name |-> "bathrooms", value |-> b],
      [name |-> "sqft", value |-> c], [name |-> "age", value |-> d]>>

sample_house == LiteralVector(3, 2, 1500, 10)

price_test_cases ==
    <<[description |-> "Small starter home", features |-> LiteralVector(2, 1, 900, 25)],
      [description |-> "Average family home", features |-> LiteralVector(3, 2, 1500, 10)],
      [description |-> "Large luxury home", features |-> LiteralVector(5, 3, 3500, 5)],
      [description |-> "Older compact home", features |-> LiteralVector(2, 1, 1000, 40)],
      [description |-> "New modern home", features |-> LiteralVector(4, 3, 2500, 2)]>>

\* The interactive vector with two entries exchanged.
interactive_features_swapped(bedrooms, bathrooms, sqft, age) ==
    <<[name |-> "bedrooms", value |-> bedrooms], [name |-> "sqft", value |-> sqft],
      [name |-> "bathrooms", value |-> bathrooms], [name |-> "age", value |-> age]>>

\* features = [bedrooms, bathrooms, sqft, age] of interactive_prediction.
interactive_features(bedrooms, bathrooms, sqft, age) ==
    <<[name |-> "bedrooms", value |-> bedrooms], [name |-> "bathrooms", value |-> bathrooms],
      [name |-> "sqft", value |-> sqft], [name |-> "age", value |-> age]>>

\* One inference of the price model: the vector handed over and the result.
PriceCall(m, labelled) ==
    [kind |-> "price", model_input |-> Values(labelled),
     value |-> price_predict(m, Values(labelled))]

ParkLoop ==
    /\ loop = "none"
    /\ printed = <<>>
    /\ price_model = None
    /\ price_info = None

InitLoop ==
    /\ model \in Models \cup {[bias |-> 0, w |-> Weights, usable |-> FALSE]}
    /\ model_info = [feature_names |-> FeatureNames,
                     model_type |-> "RandomForestClassifier"]
    /\ request = NotYet
    /\ response = NotYet
    /\ prev_request = NotYet
    /\ prev_response = NotYet
    /\ loop = "none"
    /\ printed = <<>>
    /\ price_model \in PriceModels
    /\ price_info = [model_type |-> "LinearRegression", features |-> features]

\* One iteration of the canned loop of test_model.
CannedCase ==
    /\ \E i \in DOMAIN test_customers :
         LET customer == test_customers[i]
             out == predict_churn(model, model_info, customer.profile)
         IN /\ request' = [kind |-> "call", data |-> customer.profile]
            /\ response' = out
            /\ loop' = "canned"
            /\ printed' = canned_report(out.ret)
    /\ UNCHANGED <<model, model_info>>
    /\ LoopOnly

\* One iteration of the interactive loop in which every prompt was answered
\* with something int()/float() accept; processingTime (t) is a draw of
\* np.random.uniform(50, 150).
InteractiveCase ==
    /\ \E a \in {30, 55}, mc \in {70, Inf}, tc \in {220, Inf}, c \in {0, 2}, t \in {50, 149} :
         LET customer_data == Row8(a, 2, mc, tc, c, 0, 1, 0)
             out == predict_churn(model, model_info, customer_data)
         IN /\ request' = [kind |-> "call", data |-> customer_data]
            /\ response' = out
            /\ loop' = "interactive"
            /\ printed' = interactive_report(out.ret, customer_data, t)
    /\ UNCHANGED <<model, model_info>>
    /\ LoopOnly

\* One iteration of the loop of test_sample_predictions, on the model the
\* training script has just fitted.
SamplePrediction ==
    /\ model.usable
    /\ \E i \in DOMAIN test_cases :
         /\ request' = [kind |-> "sample", data |-> test_cases[i].data]
         /\ response' = NotYet
         /\ loop' = "sample"
         /\ printed' = sample_report(model, model_info.feature_names, test_cases[i].data)
    /\ UNCHANGED <<model, model_info>>
    /\ LoopOnly

\* The sample prediction at the end of the price training script.
PriceSample ==
    /\ request' = [kind |-> "price", data |-> sample_house]
    /\ response' = PriceCall(price_model, sample_house)
    /\ loop' = "price sample"
    /\ printed' = <<[tag |-> "House", arg |-> [words |-> Names(sample_house)]],
                    [tag |-> "Predicted price",
                     arg |-> [dollars |-> price_predict(price_model, Values(sample_house))]]>>
    /\ UNCHANGED <<model, model_info>>
    /\ LoopOnly

\* One iteration of the loop of test_predictions: the values are printed
\* beside the names of model_info['features'].
PriceCanned ==
    /\ \E i \in DOMAIN price_test_cases :
         LET test_case == price_test_cases[i]
             out == PriceCall(price_model, test_case.features)
         IN /\ request' = [kind |-> "price", data |-> test_case.features]
            /\ response' = out
            /\ loop' = "price canned"
            /\ printed' = [j \in 1..Len(price_info.features) |->
                             [tag |-> price_info.features[j],
                              arg |-> [value |-> out.model_input[j]]]]
                          \o <<[tag |-> "Predicted price", arg |-> [dollars |-> out.value]]>>
    /\ UNCHANGED <<model, model_info>>
    /\ LoopOnly

\* interactive_prediction with four answers int() accepts.
PriceInteractive ==
    /\ \E bedrooms \in {1, 5}, bathrooms \in {1, 3}, sqft \in {800, 4000}, age \in {0, 50} :
         LET labelled == interactive_features(bedrooms, bathrooms, sqft, age)
             out == PriceCall(price_model, labelled)
         IN /\ request' = [kind |-> "price", data |-> labelled]
            /\ response' = out
            /\ loop' = "price interactive"
            /\ printed' = <<[tag |-> "Bedrooms", arg |-> [value |-> bedrooms]],
                            [tag |-> "Bathrooms", arg |-> [value |-> bathrooms]],
                            [tag |-> "Square feet", arg |-> [value |-> sqft]],
                            [tag |-> "Age", arg |-> [value |-> age]],
                            [tag |-> "Predicted price", arg |-> [dollars |-> out.value]]>>
    /\ UNCHANGED <<model, model_info>>
    /\ LoopOnly

\* interactive_prediction with an answer int() refuses, or interrupted.
PriceInteractiveSkipped ==
    /\ request' = NotYet
    /\ response' = NotYet
    /\ loop' = "price interactive"
    /\ printed' = <<[tag |-> "Skipping interactive prediction", arg |-> None]>>
    /\ UNCHANGED <<model, model_info>>
    /\ LoopOnly

\* One iteration in which int() or float() refused an answer: ValueError,
\* before any call.
InteractiveInvalid ==
    /\ request' = NotYet
    /\ response' = NotYet
    /\ loop' = "interactive"
    /\ printed' = <<[tag |-> "Invalid input",
                     arg |-> [type |-> "ValueError", names |-> {}]]>>
    /\ UNCHANGED <<model, model_info>>
    /\ LoopOnly

(***************************************************************************)
(*                        THE QUICK-START SCRIPTS                          *)
(***************************************************************************)

\* The steps of main(), in the order of its text. The fourth is verify_model
\* in the churn script and the run of test_model.py in the price script.
QuickSteps == <<"directory", "dependencies", "training", "checking", "banner">>

\* The file whose presence the directory check tests.
DirectoryMarker(p) == IF p = "churn" THEN "requirements.txt" ELSE "train_model.py"

\* How main() leaves when a step fails: the churn main returns, the price
\* main calls sys.exit(1).
Leave(p) == IF p = "churn" THEN [how |-> "return", status |-> 0]
            ELSE [how |-> "sys.exit", status |-> 1]

\* A main() that goes on to the next step whatever the outcome.
AfterStepRegardless(p, step, ok) ==
    CASE step = "directory" -> "dependencies"
      [] step = "dependencies" -> "training"
      [] step = "training" -> "checking"
      [] step = "checking" -> "banner"
      [] step = "banner" -> "ended"

\* Where main() goes after a step: on, or out. Only the price script's
\* testing step may fail without ending the script.
AfterStep(p, step, ok) ==
    CASE step = "directory" -> IF ok THEN "dependencies" ELSE "left"
      [] step = "dependencies" -> IF ok THEN "training" ELSE "left"
      [] step = "training" -> IF ok THEN "checking" ELSE "left"
      [] step = "checking" -> IF ok \/ p = "price" THEN "banner" ELSE "left"
      [] step = "banner" -> "ended"

\* check_python_packages of the price script: pip runs only when an import
\* failed, and its success is not checked by importing again.
check_python_packages(missing, pip_ok) == IF missing THEN pip_ok ELSE TRUE

\* One step of main() with its outcome; what names the file or command the
\* step is about.
QuickStep(p, step, ok, what) ==
    /\ qpc[p] = step
    /\ qlog' = [qlog EXCEPT ![p] = Append(@, [step |-> step, ok |-> ok, what |-> what])]
    /\ qpc' = [qpc EXCEPT ![p] = AfterStep(p, step, ok)]
    /\ qexit' = [qexit EXCEPT ![p] =
                   CASE AfterStep(p, step, ok) = "left" -> Leave(p)
                     [] AfterStep(p, step, ok) = "ended" -> [how |-> "end of main", status |-> 0]
                     [] OTHER -> @]
    /\ QuickOnly

ParkQuick ==
    /\ qpc = [p \in Pipelines |-> "directory"]
    /\ qlog = [p \in Pipelines |-> <<>>]
    /\ qexit = [p \in Pipelines |-> NotYet]

\* os.path.exists of the marker file.
DirectoryCheck(p) == \E exists \in BOOLEAN : QuickStep(p, "directory", exists, DirectoryMarker(p))

\* Price: check_python_packages. Churn: install_requirements, which always
\* runs pip.
Dependencies(p) ==
    \E missing \in BOOLEAN, pip_ok \in BOOLEAN :
        IF p = "price"
        THEN QuickStep(p, "dependencies", check_python_packages(missing, pip_ok),
                       IF missing THEN "pip install -r requirements.txt" ELSE "nothing to install")
        ELSE QuickStep(p, "dependencies", pip_ok, "pip install -r requirements.txt")

\* The training script run as a child process; a non-zero exit status is a
\* failure.
Training(p) == \E exit_ok \in BOOLEAN : QuickStep(p, "training", exit_ok, TrainScript(p))

\* Churn: verify_model, os.path.exists of the model file. Price: the run of
\* test_model.py.
Checking(p) ==
    \E ok \in BOOLEAN :
        QuickStep(p, "checking", ok, IF p = "churn" THEN ModelFile(p) ELSE "test_model.py")

\* The closing banner and the hints after it.
Banner(p) ==
    QuickStep(p, "banner", TRUE,
              IF p = "churn" THEN "Success! Your model is ready!" ELSE "Quick start completed!")

(***************************************************************************)
(*                           SPECIFICATIONS                                *)
(***************************************************************************)

Init == InitArtifacts /\ ParkPredict /\ ParkGen /\ ParkRow /\ ParkLoop /\ ParkQuick

Next ==
    \/ \E p \in Pipelines : TrainFit(p)
    \/ \E p \in Pipelines : DumpModel(p)
    \/ \E p \in Pipelines : DumpInfo(p)
    \/ \E f \in Files : RemoveFile(f)
    \/ \E p \in Pipelines : LoadModel(p)
    \/ \E p \in Pipelines : RunTests(p)

Spec == Init /\ [][Next]_vars

InitP == ParkArtifacts /\ InitPredict /\ ParkGen /\ ParkRow /\ ParkLoop /\ ParkQuick

NextP == PredictChurn

SpecPredict == InitP /\ [][NextP]_vars

InitG == ParkArtifacts /\ ParkPredict /\ InitGen /\ ParkRow /\ ParkLoop /\ ParkQuick

NextG ==
    \/ \E p \in Pipelines, n \in (-1)..MaxN : Generate(p, n)
    \/ OtherDraw

SpecGen == InitG /\ [][NextG]_vars

InitR == ParkArtifacts /\ ParkPredict /\ ParkGen /\ InitRow /\ ParkLoop /\ ParkQuick

NextR == PriceRow \/ ChurnRow

SpecRow == InitR /\ [][NextR]_vars

InitL == ParkArtifacts /\ InitLoop /\ ParkGen /\ ParkRow /\ ParkQuick

NextL ==
    \/ CannedCase
    \/ InteractiveCase
    \/ InteractiveInvalid
    \/ SamplePrediction
    \/ PriceSample
    \/ PriceCanned
    \/ PriceInteractive
    \/ PriceInteractiveSkipped

SpecLoop == InitL /\ [][NextL]_vars

InitQ == ParkArtifacts /\ ParkPredict /\ ParkGen /\ ParkRow /\ ParkLoop /\ ParkQuick

NextQ ==
    \/ \E p \in Pipelines : DirectoryCheck(p)
    \/ \E p \in Pipelines : Dependencies(p)
    \/ \E p \in Pipelines : Training(p)
    \/ \E p \in Pipelines : Checking(p)
    \/ \E p \in Pipelines : Banner(p)

SpecQuick == InitQ /\ [][NextQ]_vars

(***************************************************************************)
(*                               CLAIMS                                    *)
(***************************************************************************)

\* The two predict_churn calls the state remembers, each with its outcome.
Calls == {c \in {[req |-> request, out |-> response],
                 [req |-> prev_request, out |-> prev_response]} :
            c.req.kind = "call"}

Succeeded(out) == "risk_level" \in DOMAIN out.ret

\* C1: every risk label predict_churn returns follows the fixed thresholds:
\* above 0.7 "High", above 0.3 and at most 0.7 "Medium", at most 0.3 "Low";
\* so 0.7 itself is "Medium", 0.3 itself is "Low", and each probability gets
\* exactly one label.
C1_RiskThresholds ==
    \A c \in Calls :
        Succeeded(c.out) =>
            LET p == c.out.ret.churn_probability
                label == c.out.ret.risk_level
            IN /\ p \in 0..100
               /\ label \in {"High", "Medium", "Low"}
               /\ (label = "High") <=> (p > 70)
               /\ (label = "Medium") <=> (p > 30 /\ p <= 70)
               /\ (label = "Low") <=> (p <= 30)

\* C1 witness: a call whose probability is exactly 0.7 was labelled "Medium".
C1_Witness ==
    /\ request.kind = "call"
    /\ Succeeded(response)
    /\ response.ret.churn_probability = 70
    /\ response.ret.risk_level = "Medium"

\* C2 (as claimed): once the save step of train_model has ended, normally or
\* by a failed write, the run has written both artifact files or neither.
C2_PairedWrite ==
    \A p \in Pipelines :
        pc[p] \in {"done", "failed"} =>
            written[p] \in {{}, {ModelFile(p), InfoFile(p)}}

\* C3: whenever load_model finds the model file or the metadata file missing
\* it returns (None, None) to its caller after printing the not-found message
\* that names the training script to run first; it never ends in an uncaught
\* exception. Loading before any save is one such case.
C3_LoadNotFound ==
    \A p \in Pipelines :
        loadOut[p].kind = "load" =>
            /\ loadOut[p].ret.outcome = "returned"
            /\ (~loadOut[p].model_there \/ ~loadOut[p].info_there) =>
                 /\ loadOut[p].ret.model = None
                 /\ loadOut[p].ret.model_info = None
                 /\ Len(loadOut[p].ret.printed) = 4
                 /\ loadOut[p].ret.printed[1] = "not found"
                 /\ loadOut[p].ret.printed[3] = "run first"
                 /\ loadOut[p].ret.printed[4] = TrainScript(p)

\* C3 witness: a load that found the model file but no metadata file, and
\* returned (None, None).
C3_Witness ==
    \E p \in Pipelines :
        /\ loadOut[p].kind = "load"
        /\ loadOut[p].model_there
        /\ ~loadOut[p].info_there
        /\ loadOut[p].ret.outcome = "returned"
        /\ loadOut[p].ret.model = None

Required == {model_info.feature_names[i] : i \in DOMAIN model_info.feature_names}

\* C4: a mapping that lacks a name of the metadata's feature_names makes
\* predict_churn return an error record and nothing else (no prediction,
\* probability or risk label), and the model is not invoked.
C4_MissingFeatureFails ==
    \A c \in Calls :
        ~(Required \subseteq Columns(c.req.data)) =>
            /\ DOMAIN c.out.ret = {"error"}
            /\ c.out.ret.error.type = "KeyError"
            /\ c.out.ret.error.names = Required \ Columns(c.req.data)
            /\ ~c.out.model_input.called

\* C4 witness: a call without "tenure" came back as an error.
C4_Witness ==
    /\ request.kind = "call"
    /\ "tenure" \notin Columns(request.data)
    /\ DOMAIN response.ret = {"error"}

\* C5 (as claimed): a mapping with a name outside feature_names is rejected
\* with an error and no prediction is returned.
C5_ExtraNameRejected ==
    \A c \in Calls :
        ~(Columns(c.req.data) \subseteq Required) =>
            /\ "error" \in DOMAIN c.out.ret
            /\ ~Succeeded(c.out)

\* C6: two mappings with the same name/value pairs, whatever their key
\* orders, hand the model the same vector and get the same result.
C6_OrderIrrelevant ==
    (/\ request.kind = "call"
     /\ prev_request.kind = "call"
     /\ Pairs(request.data) = Pairs(prev_request.data))
    => /\ response.model_input = prev_response.model_input
       /\ response.ret = prev_response.ret

\* C6 witness: two successive calls with the same pairs in different key
\* orders, both of which reached the model.
C6_Witness ==
    /\ request.kind = "call"
    /\ prev_request.kind = "call"
    /\ Pairs(request.data) = Pairs(prev_request.data)
    /\ request.data # prev_request.data
    /\ response.model_input.called
    /\ prev_response.model_input.called

BothGenerated == genOut.kind = "call" /\ genPrev.kind = "call"

\* C7: two calls of a generator with the same n return the same dataset,
\* whatever state the random source was in before each call and whatever was
\* drawn in between.
C7_Deterministic ==
    (/\ BothGenerated
     /\ genOut.pipeline = genPrev.pipeline
     /\ genOut.n = genPrev.n)
    => /\ genOut.raised = genPrev.raised
       /\ genOut.data = genPrev.data

\* C7 witness: two calls with the same n > 0 that started from different
\* states of the random source and both returned a dataset.
C7_Witness ==
    /\ BothGenerated
    /\ genOut.pipeline = genPrev.pipeline
    /\ genOut.n = genPrev.n
    /\ genOut.n > 0
    /\ genOut.rng_before # genPrev.rng_before
    /\ ~genOut.raised
    /\ genOut.data = genPrev.data

\* C8 (as claimed): a generator call raises and returns no dataset exactly
\* when n <= 0.
C8_RejectsNonPositive ==
    genOut.kind = "call" =>
        /\ (genOut.n <= 0) <=> genOut.raised
        /\ genOut.raised => genOut.data = None

\* C9: every generated price is at least 50000 and every generated
\* total_charges at least 20, whatever the noise draw.
C9_Floors ==
    /\ rowOut.kind = "price" => rowOut.price >= 50000
    /\ rowOut.kind = "churn" => rowOut.total_charges >= 20

\* C9 witness: a house row whose noise took the unfloored price below 50000.
C9_Witness ==
    /\ rowOut.kind = "price"
    /\ 50000 + rowOut.bedrooms * 25000 + rowOut.bathrooms * 15000
         + rowOut.sqft * 100 - rowOut.age * 1000 + rowOut.noise < 50000
    /\ rowOut.price = 50000

\* The sum of the active terms of a churn row, hundredths, written out.
ActiveTerms(r) ==
    10 + (IF r.tenure < 6 THEN 30 ELSE 0)
       + (IF r.contract_type = 0 THEN 20 ELSE 0)
       + (IF r.payment_method = 0 THEN 15 ELSE 0)
       + (IF r.monthly_charges > 80 THEN 10 ELSE 0)
       + (IF r.age < 30 THEN 10 ELSE 0)
       - (IF r.tech_support = 1 THEN 15 ELSE 0)
       + (IF r.internet_service = 1 THEN 10 ELSE 0)

\* C10: the churn probability of a row is the sum of the active terms clipped
\* to [0, 1], so it lies in [0, 1] for every combination of the indicators,
\* and the label drawn at it is 0 or 1.
C10_ClippedProbability ==
    rowOut.kind = "churn" =>
        /\ rowOut.churn_probability \in 0..100
        /\ ActiveTerms(rowOut) < 0 => rowOut.churn_probability = 0
        /\ ActiveTerms(rowOut) > 100 => rowOut.churn_probability = 100
        /\ ActiveTerms(rowOut) \in 0..100 =>
             rowOut.churn_probability = ActiveTerms(rowOut)
        /\ rowOut.churn \in {0, 1}

\* C10 witness: a row with every raising term active, whose sum 1.05 was
\* clipped to 1 and whose label is 1.
C10_Witness ==
    /\ rowOut.kind = "churn"
    /\ ActiveTerms(rowOut) = 105
    /\ rowOut.churn_probability = 100
    /\ rowOut.churn = 1


\* C11: every failed predict_churn call of the canned loop and of the
\* interactive loop is printed as an error line carrying the message of that
\* failure.
C11_FailuresReported ==
    (/\ loop \in {"canned", "interactive"}
     /\ response # NotYet
     /\ "error" \in DOMAIN response.ret)
    => \E i \in DOMAIN printed :
          /\ printed[i].tag = "Error"
          /\ printed[i].arg = response.ret.error

\* The canned loop alone does print the failure's own message.
CannedFailuresReported ==
    (/\ loop = "canned"
     /\ "error" \in DOMAIN response.ret)
    => printed = <<[tag |-> "Error", arg |-> response.ret.error]>>


ResultFields == {"prediction", "churn_probability", "no_churn_probability", "risk_level", "prediction_label"}

\* C12: a predict_churn call that did not fail returns exactly the five
\* fields, with prediction 0 or 1, risk_level one of the three labels and
\* prediction_label "Churn" exactly when prediction = 1, "No Churn"
\* otherwise; a call that failed returns the error field and none of the five.
C12_ResultShape ==
    \A c \in Calls :
        LET r == c.out.ret
            failed == \/ ~(Required \subseteq Columns(c.req.data))
                      \/ ModelRaises(model, c.out.model_input.vector) # None
        IN IF failed
           THEN /\ "error" \in DOMAIN r
                /\ DOMAIN r \cap ResultFields = {}
           ELSE /\ DOMAIN r = ResultFields
                /\ r.prediction \in {0, 1}
                /\ r.risk_level \in {"Low", "Medium", "High"}
                /\ r.prediction_label \in {"Churn", "No Churn"}
                /\ (r.prediction_label = "Churn") <=> (r.prediction = 1)

\* C12 witness: the last two calls were a success predicting churn and a
\* failure.
C12_Witness ==
    /\ request.kind = "call"
    /\ prev_request.kind = "call"
    /\ Succeeded(response)
    /\ response.ret.prediction = 1
    /\ response.ret.prediction_label = "Churn"
    /\ "error" \in DOMAIN prev_response.ret


\* C15: the risk label test_sample_predictions prints for a customer equals
\* the risk_level predict_churn returns for the same customer and model,
\* whatever the probability.
C15_RiskRulesAgree ==
    loop = "sample" =>
        LET here == predict_churn(model, model_info, request.data).ret
        IN /\ Succeeded([ret |-> here])
           /\ printed[2].arg.hundredths = here.churn_probability
           /\ printed[3].arg.level = here.risk_level

\* C15 witness: the training script printed "Medium" at probability 0.7, a
\* threshold itself.
C15_Witness ==
    /\ loop = "sample"
    /\ printed[2].arg.hundredths = 70
    /\ printed[3].arg.level = "Medium"


\* The position the labelled vector gives the quantity called name.
IndexOf(labelled, name) == (CHOOSE k \in DOMAIN labelled : labelled[k].name = name)

\* C14: every vector handed to the price model, by the training script's
\* sample prediction, by a canned test case or by the interactive input,
\* lists its values in the order fixed at training and recorded in the
\* metadata (bedrooms, bathrooms, sqft, age), so each coefficient of the
\* model multiplies the value of its own feature.
C14_InferenceOrder ==
    request.kind = "price" =>
        /\ Names(request.data) = <<"bedrooms", "bathrooms", "sqft", "age">>
        /\ Names(request.data) = price_info.features
        /\ response.model_input = Values(request.data)
        /\ response.value =
             price_model.intercept
             + price_model.coef.bedrooms * request.data[IndexOf(request.data, "bedrooms")].value
             + price_model.coef.bathrooms * request.data[IndexOf(request.data, "bathrooms")].value
             + price_model.coef.sqft * request.data[IndexOf(request.data, "sqft")].value
             + price_model.coef.age * request.data[IndexOf(request.data, "age")].value

\* C14 witness: an interactive price prediction for 5 bedrooms and 1
\* bathroom.
C14_Witness ==
    /\ loop = "price interactive"
    /\ request.kind = "price"
    /\ response.model_input[1] = 5
    /\ response.model_input[2] = 1


\* The load_model calls that returned metadata.
LoadedInfo == {p \in Pipelines : loadOut[p] # NotYet /\ loadOut[p].ret.model_info # None}

\* C13: the metadata load_model returns has the feature names, in order, and
\* the performance metrics of the metadata object the completed save wrote
\* into the file, for both pipelines.
C13_MetadataRoundTrip ==
    \A p \in LoadedInfo :
        LET loaded == loadOut[p].ret.model_info.data
            saved == loadOut[p].info_saved
        IN /\ InfoFeatureNames(p, loaded) = InfoFeatureNames(p, saved)
           /\ InfoFeatureNames(p, loaded) = (IF p = "churn" THEN FeatureNames ELSE features)
           /\ InfoMetrics(p, loaded) = InfoMetrics(p, saved)

\* C13 witness: the price metadata was loaded with a negative R2 and an RMSE
\* with a fractional part, and the churn metadata with accuracy 1.0.
C13_Witness ==
    /\ LoadedInfo = Pipelines
    /\ InfoMetrics("price", loadOut["price"].ret.model_info.data)[1].v < 0
    /\ InfoMetrics("price", loadOut["price"].ret.model_info.data)[2].v % 10000 # 0
    /\ InfoMetrics("churn", loadOut["churn"].ret.model_info.data)[1].v = 10000


\* C16: load_model returns the model and its metadata together when both
\* files are there and (None, None) when either is missing, also when only
\* the metadata file is; after a failed load the testing script predicts
\* nothing: the churn script has returned, the price script has exited with
\* status 1.
C16_NoPartialLoad ==
    \A p \in Pipelines :
        loadOut[p] # NotYet =>
            LET ret == loadOut[p].ret
                script == loadOut[p].script
            IN /\ ret.outcome = "returned"
               /\ (ret.model = None) <=> (ret.model_info = None)
               /\ (loadOut[p].model_there /\ loadOut[p].info_there)
                    => (ret.model # None /\ ret.model_info # None)
               /\ ~(loadOut[p].model_there /\ loadOut[p].info_there)
                    => (ret.model = None /\ ret.model_info = None)
               /\ ret.model = None =>
                    /\ script.step = (IF p = "churn" THEN "returned" ELSE "exited")
                    /\ p = "price" => script.status = 1
               /\ script.step \in {"testing", "predicted"} =>
                    (ret.model # None /\ ret.model_info # None)
               /\ script.step # "crashed"

\* C16 witness: the price script found its model file but no metadata file
\* and exited with status 1, while the churn script loaded both and ran its
\* predictions.
C16_Witness ==
    /\ loadOut["price"] # NotYet
    /\ loadOut["price"].model_there
    /\ ~loadOut["price"].info_there
    /\ loadOut["price"].script = [step |-> "exited", status |-> 1]
    /\ loadOut["churn"] # NotYet
    /\ loadOut["churn"].script.step = "predicted"


\* The steps a quick-start script has run, and whether it ran a given one.
StepsRun(p) == [i \in DOMAIN qlog[p] |-> qlog[p][i].step]
Ran(p, step) == \E i \in DOMAIN qlog[p] : qlog[p][i].step = step
Passed(p, step) == \E i \in DOMAIN qlog[p] : qlog[p][i].step = step /\ qlog[p][i].ok

\* C17: each quick-start script runs directory check, dependency step,
\* training, then verification/testing, in that order; training starts only
\* after the directory check and the dependency step succeeded; the success
\* banner is printed only when training succeeded; and a failed directory
\* check, dependency step or training is the last step the script runs.
C17_QuickStartOrder ==
    \A p \in Pipelines :
        /\ Len(qlog[p]) <= Len(QuickSteps)
        /\ StepsRun(p) = SubSeq(QuickSteps, 1, Len(qlog[p]))
        /\ Ran(p, "training") => (Passed(p, "directory") /\ Passed(p, "dependencies"))
        /\ Ran(p, "banner") => Passed(p, "training")
        /\ \A i \in DOMAIN qlog[p] :
             (qlog[p][i].step \in {"directory", "dependencies", "training"} /\ ~qlog[p][i].ok)
                => /\ i = Len(qlog[p])
                   /\ qpc[p] = "left"
                   /\ qexit[p] = Leave(p)

\* C17 witness: the price script printed its banner after a failed test run,
\* and the churn script left after a failed training.
C17_Witness ==
    /\ Ran("price", "banner")
    /\ Ran("price", "checking") /\ ~Passed("price", "checking")
    /\ Ran("churn", "training") /\ ~Passed("churn", "training")
    /\ qpc["churn"] = "left"

====
